---- MODULE Spec2Model ----
(***************************************************************************)
(* A model of control_code.py (the autograder-feedback pipeline) and of    *)
(* prompt_store.py (PromptStore).  One run of main() is a sequence of      *)
(* steps (pc), each step an action; the environment (student files on      *)
(* disk, the human reviewer of feedback rows) acts between steps.          *)
(*                                                                         *)
(* Text is modelled as a sequence of tokens: a token stands for one        *)
(* character (" ", "/", a digit) or for one fixed word of the text.        *)
(***************************************************************************)
EXTENDS Integers, Sequences, FiniteSets, TLC

VARIABLES
  pc,                \* position of the run inside main()
  outcome,           \* "none" | "running" | "ok" | "failed"
  failedAt,          \* the step at which the run failed ("" when it did not)
  runsLeft,          \* invocations of the script still to come
  clock,             \* datetime.utcnow(), as a logical clock
  student_dir,       \* STUDENT_CODE_DIR on disk: [exists, files, dirs]
  auto_file,         \* AUTO_FILE on disk: [exists, data]
  prompt_dir,        \* the prompt directory: template name -> file state
  prompt_names,      \* [perfect |-> PROMPT_PERFECT, default |-> PROMPT_DEFAULT]
  feedback_md,       \* FEEDBACK_MD on disk
  repo_name, code_files, student_code_blob, autograder_out, perfect,
  ts, conn, past_fb, prior_feedback, system_prompt, requests, feedback_text,
  submission_id, file_idx,
  md_written,        \* this run wrote FEEDBACK_MD completely
  db,                \* the committed contents of the four tables
  work,              \* the tables as the connection sees them (db + pending inserts)
  db_before          \* db when the run started

envVars   == <<student_dir, auto_file, prompt_dir, prompt_names, feedback_md>>
localVars == <<repo_name, code_files, student_code_blob, autograder_out, perfect,
               ts, past_fb, prior_feedback, system_prompt, requests,
               feedback_text, submission_id, file_idx, md_written>>
dbVars    == <<conn, db, work, db_before>>
ctlVars   == <<pc, outcome, failedAt, runsLeft, clock>>
vars      == <<ctlVars, envVars, localVars, dbVars>>

----------------------------------------------------------------------------
(* Bounds of the model *)

MaxItems  == 2    \* items (words, Points phrases) in an autograder text
MaxDepth  == 2    \* depth of the student-code tree
MaxEntries == 3   \* files and directories in the student-code tree
MaxRows   == 4    \* feedback rows in the store when the history is queried
MaxTplLen == 2    \* characters in a prompt template file
MaxRuns   == 2    \* invocations of the script

----------------------------------------------------------------------------
(* Sequences *)

Range(s) == {s[i] : i \in 1..Len(s)}

SeqsUpTo(S, n) == UNION {[1..k -> S] : k \in 0..n}

RECURSIVE Flatten(_)
Flatten(ss) == IF ss = <<>> THEN <<>> ELSE Head(ss) \o Flatten(Tail(ss))

Min(a, b) == IF a < b THEN a ELSE b

----------------------------------------------------------------------------
(* Score Detector: is_perfect_score *)

Marker      == "All tests passed"
MarkerLower == "all tests passed"
Keywords    == {"Points", "points"}        \* re.I: the keyword in any case
Digits      == {"0", "5", "7"}
IsSpace(t)  == t = " "
IsDigit(t)  == t \in Digits

\* first index >= i of text that is not whitespace (Len+1 at the end): \s*
RECURSIVE SkipSpaces(_, _)
SkipSpaces(text, i) ==
  IF i <= Len(text) /\ IsSpace(text[i]) THEN SkipSpaces(text, i + 1) ELSE i

\* first index >= i of text that is not a digit: \d+ takes the whole run,
\* a shorter take leaves a digit where the pattern wants \s, "/" or nothing
RECURSIVE SkipDigits(_, _)
SkipDigits(text, i) ==
  IF i <= Len(text) /\ IsDigit(text[i]) THEN SkipDigits(text, i + 1) ELSE i

NoMatch == [found |-> FALSE, g1 |-> <<>>, g2 |-> <<>>]

\* Points\s+(\d+)\s*/\s*(\d+) matched with its first token at index i
MatchAt(text, i) ==
  IF ~(i <= Len(text) /\ text[i] \in Keywords) THEN NoMatch
  ELSE LET a == SkipSpaces(text, i + 1)
           b == SkipDigits(text, a)
           c == SkipSpaces(text, b)
           d == SkipSpaces(text, c + 1)
           e == SkipDigits(text, d)
       IN IF a > i + 1 /\ b > a /\ c <= Len(text) /\ text[c] = "/" /\ e > d
            THEN [found |-> TRUE, g1 |-> SubSeq(text, a, b - 1),
                                  g2 |-> SubSeq(text, d, e - 1)]
            ELSE NoMatch

\* the match at the rightmost index that has one (not what re.search does)
RECURSIVE SearchBack(_, _)
SearchBack(text, i) ==
  IF i < 1 THEN NoMatch
  ELSE IF MatchAt(text, i).found THEN MatchAt(text, i)
  ELSE SearchBack(text, i - 1)

re_search_last(text) == SearchBack(text, Len(text))

\* re.search: the match at the leftmost index that has one
RECURSIVE SearchFrom(_, _)
SearchFrom(text, i) ==
  IF i > Len(text) THEN NoMatch
  ELSE IF MatchAt(text, i).found THEN MatchAt(text, i)
  ELSE SearchFrom(text, i + 1)

re_search(text) == SearchFrom(text, 1)

is_perfect_score(text) ==
  IF \E i \in 1..Len(text) : text[i] = Marker THEN TRUE
  ELSE LET m == re_search(text) IN m.found /\ m.g1 = m.g2

----------------------------------------------------------------------------
(* Files on disk, and read_file *)

\* a file's bytes: whether they are valid UTF-8, and what each decoding gives
FileX   == [utf8ok |-> TRUE,  utf8 |-> <<"x">>, latin1 |-> <<"x">>]
FileY   == [utf8ok |-> TRUE,  utf8 |-> <<"y">>, latin1 |-> <<"y">>]
FileBin == [utf8ok |-> FALSE, utf8 |-> <<>>,    latin1 |-> <<"\\xff">>]
NoData  == [utf8ok |-> TRUE,  utf8 |-> <<>>,    latin1 |-> <<>>]

\* path.read_text(encoding=enc): ISO-8859-1 decodes every byte string
Decodes(data, enc) == IF enc = "utf-8" THEN data.utf8ok ELSE TRUE
Decoded(data, enc) == IF enc = "utf-8" THEN data.utf8 ELSE data.latin1

\* read_file on the bytes of a file that can be opened
read_file(data) ==
  IF Decodes(data, "utf-8") THEN Decoded(data, "utf-8")
  ELSE IF Decodes(data, "ISO-8859-1") THEN Decoded(data, "ISO-8859-1")
  ELSE <<>>

\* a directory tree: path (sequence of names) -> [kind, data]
Names == {<<"a">>, <<"b">>, <<".", "g">>}
Ord(ch) == CASE ch = "." -> 1 [] ch = "a" -> 2 [] ch = "b" -> 3 [] ch = "g" -> 4

IsFile(tree, p) == p \in DOMAIN tree /\ tree[p].kind = "file"
IsDir(tree, p)  == p \in DOMAIN tree /\ tree[p].kind = "dir"
Parent(p)       == SubSeq(p, 1, Len(p) - 1)
PathName(p)     == p[Len(p)]                       \* Path.name
StartsWithDot(name) == Len(name) > 0 /\ name[1] = "."

\* str < str, by code point
RECURSIVE StrLess(_, _)
StrLess(s, t) ==
  IF t = <<>> THEN FALSE
  ELSE IF s = <<>> THEN TRUE
  ELSE IF Ord(Head(s)) # Ord(Head(t)) THEN Ord(Head(s)) < Ord(Head(t))
  ELSE StrLess(Tail(s), Tail(t))

\* Path < Path: the parts are compared one by one
RECURSIVE PathLess(_, _)
PathLess(p, q) ==
  IF q = <<>> THEN FALSE
  ELSE IF p = <<>> THEN TRUE
  ELSE IF Head(p) # Head(q) THEN StrLess(Head(p), Head(q))
  ELSE PathLess(Tail(p), Tail(q))

RECURSIVE sorted(_)
sorted(S) ==
  IF S = {} THEN <<>>
  ELSE LET m == CHOOSE x \in S : \A y \in S \ {x} : PathLess(x, y)
       IN <<m>> \o sorted(S \ {m})

\* sorted(p for p in STUDENT_CODE_DIR.rglob("*")
\*        if p.is_file() and not p.name.startswith("."))
collect(tree) ==
  sorted({p \in DOMAIN tree : IsFile(tree, p) /\ ~StartsWithDot(PathName(p))})

\* the lines of the code blob
HeaderLine(p) == [hdr |-> TRUE,  path |-> p,    s |-> "File: "]
TextLine(s)   == [hdr |-> FALSE, path |-> <<>>, s |-> s]
BlankLine     == TextLine("")
TextLines(txt) == [i \in 1..Len(txt) |-> TextLine(txt[i])]

\* f"File: {rel}\n" + text + "\n\n"
BlobEntry(p, txt) == <<HeaderLine(p)>> \o TextLines(txt) \o <<BlankLine>>

\* the paths of the header lines of a blob, in the order of the lines
HeaderPathsOf(blob) ==
  LET hs == SelectSeq(blob, LAMBDA l : l.hdr) IN [i \in 1..Len(hs) |-> hs[i].path]

RECURSIVE Blob(_, _)
Blob(files, tree) ==
  IF files = <<>> THEN <<>>
  ELSE BlobEntry(Head(files), read_file(tree[Head(files)].data))
         \o Blob(Tail(files), tree)

----------------------------------------------------------------------------
(* The store: four tables, each the sequence of its rows in rowid order *)

ASSIGNMENT_ID == 101
HistoryLimit  == 3                              \* LIMIT 3

EmptyDb == [submissions |-> <<>>, code_files |-> <<>>,
            autograder_outputs |-> <<>>, feedback |-> <<>>]

\* a nullable TEXT column
Null   == [null |-> TRUE,  s |-> <<>>]
Str(s) == [null |-> FALSE, s |-> s]
Truthy(c) == ~c.null /\ c.s # <<>>              \* "if row[0]"

\* feedback.reviewed of a row inserted without it: the column's default
reviewed_default == FALSE

SubmissionRow(id, repo, blob, t) ==
  [id |-> id, student_repo |-> repo, assignment_id |-> ASSIGNMENT_ID,
   code |-> blob, submitted_at |-> t]
CodeFileRow(sid, name, txt) == [submission_id |-> sid, filename |-> name, code |-> txt]
AutograderRow(sid, out, t)  == [submission_id |-> sid, output |-> out, generated_at |-> t]
FeedbackRow(sid, repo, txt, t) ==
  [submission_id |-> sid, repo_name |-> repo, feedback_text |-> txt,
   generated_at |-> t, reviewed |-> reviewed_default,
   teacher_comments |-> Null, reviewed_at |-> 0]

Insert(tables, table, row) == [tables EXCEPT ![table] = Append(@, row)]

\* the rowid of the row before the last one (not what cur.lastrowid is)
lastrowid_stale(tables) == Len(tables.submissions) - 1

\* cur.lastrowid after the insert into submissions
lastrowid(tables) == Len(tables.submissions)

----------------------------------------------------------------------------
(* History Retriever *)

\* WHERE repo_name = ? with no test of reviewed (not what the script asks)
where_repo_only(fb, repo) == {i \in 1..Len(fb) : fb[i].repo_name = repo}

\* WHERE repo_name = ? AND reviewed = 1
where_reviewed(fb, repo) ==
  {i \in 1..Len(fb) : fb[i].repo_name = repo /\ fb[i].reviewed}

\* ORDER BY reviewed_at DESC: every order of the rows S that the clause allows
\* (rows with equal reviewed_at come in any order)
RECURSIVE order_by_desc(_, _)
order_by_desc(fb, S) ==
  IF S = {} THEN {<<>>}
  ELSE UNION {{<<m>> \o rest : rest \in order_by_desc(fb, S \ {m})} :
                m \in {x \in S : \A y \in S : fb[y].reviewed_at <= fb[x].reviewed_at}}

limit(rows, n) == SubSeq(rows, 1, Min(n, Len(rows)))

\* the results the SELECT may return: sequences of teacher_comments
select_history(fb, repo) ==
  {[i \in 1..Len(rows) |-> fb[rows[i]].teacher_comments] :
     rows \in {limit(o, HistoryLimit) : o \in order_by_desc(fb, where_reviewed(fb, repo))}}

Sentinel  == <<"None so far.">>
Separator == <<"\n\n">>

RECURSIVE join(_)
join(strs) ==
  IF strs = <<>> THEN <<>>
  ELSE IF Len(strs) = 1 THEN strs[1]
  ELSE strs[1] \o Separator \o join(Tail(strs))

\* "\n\n".join(row[0] for row in past_fb if row[0]) or "None so far."
build_prior_feedback(rows) ==
  LET kept   == SelectSeq(rows, Truthy)
      joined == join([i \in 1..Len(kept) |-> kept[i].s])
  IN IF joined = <<>> THEN Sentinel ELSE joined

----------------------------------------------------------------------------
(* Prompt Store and the choice of the system instruction *)

NamePerfect == "system_perfect.md"
NameDefault == "system_default.md"
TemplateNames == {NamePerfect, NameDefault}

FallbackPerfect == <<"The autograder awarded a perfect score. ...">>
FallbackDefault == <<"You are a strict reviewer ...">>

\* a name in the prompt directory: "absent", or a "file" with its bytes
Absent == [kind |-> "absent", utf8ok |-> TRUE, content |-> <<>>]
TemplateFile(ok, content) == [kind |-> "file", utf8ok |-> ok, content |-> content]

\* str.strip()
RECURSIVE lstrip(_)
lstrip(s) == IF s # <<>> /\ IsSpace(Head(s)) THEN lstrip(Tail(s)) ELSE s
RECURSIVE rstrip(_)
rstrip(s) ==
  IF s # <<>> /\ IsSpace(s[Len(s)]) THEN rstrip(SubSeq(s, 1, Len(s) - 1)) ELSE s
strip(s) == rstrip(lstrip(s))

\* self.default_name: os.getenv("PROMPT_DEFAULT", "system_default.md")
default_name(names) == names.default

\* name = filename or self.default_name
resolve_name(filename, names) ==
  IF filename = "" THEN default_name(names) ELSE filename

\* PromptStore.read: the text, FileNotFoundError ("notfound") or the error of
\* read_text on bytes that are not UTF-8 ("error").  base / "" is the
\* directory itself, which is no regular file.
PromptStore_read(dir, names, filename) ==
  LET name == resolve_name(filename, names)
  IN IF name = "" \/ dir[name].kind # "file"
       THEN [status |-> "notfound", text |-> <<>>]
     ELSE IF ~dir[name].utf8ok
       THEN [status |-> "error", text |-> <<>>]
     ELSE [status |-> "ok", text |-> strip(dir[name].content)]

\* the filename main() asks the store for
prompt_filename(isPerfect, names) ==
  IF isPerfect THEN names.perfect ELSE names.default

fallback(isPerfect) == IF isPerfect THEN FallbackPerfect ELSE FallbackDefault

----------------------------------------------------------------------------
(* The connection and its transaction *)

\* what an executed INSERT leaves committed when every statement commits at
\* once (isolation_level=None; not how the script connects)
committed_autocommit(committed, pending) == pending

\* what an executed INSERT leaves committed: sqlite3.connect(DB_PATH) opens
\* the transaction implicitly and keeps the inserts pending until commit()
committed_after_insert(committed, pending) == committed

\* conn.rollback(), and conn.close() with a transaction still open: the
\* pending inserts are dropped
discard_pending(committed, pending) == committed

----------------------------------------------------------------------------
(* The run: main() *)

Repos         == {"r1"}
FeedbackTexts == {"fb"}
NoFile        == [exists |-> FALSE, heading |-> "", body |-> "", complete |-> FALSE]

InsertSteps == {"ins_sub", "ins_files", "ins_auto", "ins_fb", "commit"}
ResetLocals ==
  /\ code_files' = <<>> /\ student_code_blob' = <<>>
  /\ autograder_out' = <<>> /\ perfect' = FALSE /\ ts' = 0
  /\ past_fb' = <<>> /\ prior_feedback' = <<>> /\ system_prompt' = <<>>
  /\ requests' = 0 /\ feedback_text' = "" /\ submission_id' = 0
  /\ file_idx' = 0 /\ md_written' = FALSE

\* the process ends with an error the script does not handle, or through err()
Die(step) ==
  /\ pc' = "done" /\ outcome' = "failed" /\ failedAt' = step
  /\ UNCHANGED <<runsLeft, clock>>

Goto(step) ==
  /\ pc' = step /\ UNCHANGED <<outcome, failedAt, runsLeft, clock>>

\* the job places its inputs (env) and starts the script: sys.argv[1:] is args
StartRun(args, env) ==
  /\ pc = "idle" /\ runsLeft > 0
  /\ runsLeft' = runsLeft - 1 /\ clock' = clock + 1
  /\ ResetLocals
  /\ student_dir' = env.student_dir /\ auto_file' = env.auto_file
  /\ prompt_dir' = env.prompt_dir /\ UNCHANGED <<prompt_names, feedback_md>>
  /\ conn' = "none" /\ work' = db /\ db_before' = db /\ UNCHANGED db
  /\ IF Len(args) < 1
       THEN /\ pc' = "done" /\ outcome' = "failed" /\ failedAt' = "usage"
            /\ repo_name' = ""
       ELSE /\ pc' = "collect" /\ outcome' = "running" /\ failedAt' = ""
            /\ repo_name' = args[1]

\* the process is gone: its variables and its connection with it
Exit ==
  /\ pc = "done"
  /\ pc' = "idle" /\ outcome' = "none" /\ failedAt' = ""
  /\ repo_name' = "" /\ ResetLocals
  /\ conn' = "none" /\ work' = db /\ db_before' = db /\ UNCHANGED db
  /\ UNCHANGED <<runsLeft, clock, envVars>>

\* 1: gather every file in studentcode/ and build the blob
Collect ==
  /\ pc = "collect"
  /\ UNCHANGED <<envVars, dbVars, repo_name, autograder_out, perfect, ts, past_fb,
                 prior_feedback, system_prompt, requests, feedback_text,
                 submission_id, file_idx, md_written>>
  /\ IF ~student_dir.exists
       THEN Die("collect") /\ UNCHANGED <<code_files, student_code_blob>>
     ELSE IF collect(student_dir.tree) = <<>>
       THEN Die("collect") /\ UNCHANGED <<code_files, student_code_blob>>
     ELSE /\ code_files' = collect(student_dir.tree)
          /\ student_code_blob' = Blob(collect(student_dir.tree), student_dir.tree)
          /\ Goto("read")

\* autograder_out, perfect
ReadInputs ==
  /\ pc = "read"
  /\ autograder_out' = IF auto_file.exists THEN read_file(auto_file.data) ELSE <<>>
  /\ perfect' = is_perfect_score(autograder_out')
  /\ Goto("connect")
  /\ UNCHANGED <<envVars, dbVars, repo_name, code_files, student_code_blob, ts,
                 past_fb, prior_feedback, system_prompt, requests, feedback_text,
                 submission_id, file_idx, md_written>>

\* 2: ts, sqlite3.connect (which may raise)
Connect ==
  /\ pc = "connect"
  /\ ts' = clock
  /\ UNCHANGED <<envVars, db, work, db_before, repo_name, code_files,
                 student_code_blob, autograder_out, perfect, past_fb,
                 prior_feedback, system_prompt, requests, feedback_text,
                 submission_id, file_idx, md_written>>
  /\ \/ conn' = "open" /\ Goto("history")
     \/ conn' = conn /\ Die("connect")

\* the SELECT of the last reviewed teacher comments (which may raise)
QueryHistory ==
  /\ pc = "history"
  /\ UNCHANGED <<envVars, dbVars, repo_name, code_files, student_code_blob,
                 autograder_out, perfect, ts, system_prompt, requests,
                 feedback_text, submission_id, file_idx, md_written>>
  /\ \/ \E rows \in select_history(work.feedback, repo_name) :
          /\ past_fb' = rows
          /\ prior_feedback' = build_prior_feedback(rows)
          /\ Goto("prompt")
     \/ Die("history") /\ UNCHANGED <<past_fb, prior_feedback>>

\* 3: the system prompt, from the PromptStore or the built-in strings
LoadPrompt ==
  /\ pc = "prompt"
  /\ UNCHANGED <<envVars, dbVars, repo_name, code_files, student_code_blob,
                 autograder_out, perfect, ts, past_fb, prior_feedback, requests,
                 feedback_text, submission_id, file_idx, md_written>>
  /\ LET r == PromptStore_read(prompt_dir, prompt_names,
                               prompt_filename(perfect, prompt_names))
     IN IF r.status = "ok" THEN system_prompt' = r.text /\ Goto("model")
        ELSE IF r.status = "notfound"
          THEN system_prompt' = fallback(perfect) /\ Goto("model")
        ELSE UNCHANGED system_prompt /\ Die("prompt")

\* run_ollama that posts a second time when the first request fails (the
\* script does not)
CallModelRetrying ==
  /\ pc = "model"
  /\ UNCHANGED <<envVars, dbVars, repo_name, code_files, student_code_blob,
                 autograder_out, perfect, ts, past_fb, prior_feedback,
                 system_prompt, submission_id, file_idx, md_written>>
  /\ \/ /\ requests' = requests + 1
        /\ \E txt \in FeedbackTexts : feedback_text' = txt /\ Goto("write_md")
     \/ /\ requests' = requests + 2
        /\ \/ \E txt \in FeedbackTexts : feedback_text' = txt /\ Goto("write_md")
           \/ UNCHANGED feedback_text /\ Die("model")

\* 4: run_ollama: one POST; any exception ends the run through err()
CallModel ==
  /\ pc = "model"
  /\ requests' = requests + 1
  /\ UNCHANGED <<envVars, dbVars, repo_name, code_files, student_code_blob,
                 autograder_out, perfect, ts, past_fb, prior_feedback,
                 system_prompt, submission_id, file_idx, md_written>>
  /\ \/ \E txt \in FeedbackTexts : feedback_text' = txt /\ Goto("write_md")
     \/ UNCHANGED feedback_text /\ Die("model")

\* 5: FEEDBACK_MD.write_text (which may raise, before or after truncating)
WriteMarkdown ==
  /\ pc = "write_md"
  /\ UNCHANGED <<student_dir, auto_file, prompt_dir, prompt_names, dbVars,
                 repo_name, code_files, student_code_blob, autograder_out,
                 perfect, ts, past_fb, prior_feedback, system_prompt, requests,
                 feedback_text, submission_id, file_idx>>
  /\ \/ /\ feedback_md' = [exists |-> TRUE, heading |-> repo_name,
                           body |-> feedback_text, complete |-> TRUE]
        /\ md_written' = TRUE
        /\ Goto("ins_sub")
     \/ /\ feedback_md' \in {feedback_md,
                             [exists |-> TRUE, heading |-> "", body |-> "",
                              complete |-> FALSE]}
        /\ UNCHANGED md_written
        /\ Die("write_md")

\* 6: the insert sequence, inside try / except sqlite3.Error / finally

\* an INSERT that succeeds
Execute(table, row) ==
  /\ work' = Insert(work, table, row)
  /\ db' = committed_after_insert(db, work')
  /\ UNCHANGED <<conn, db_before>>

\* except sqlite3.Error: conn.rollback(), err(); finally: conn.close()
SqliteError(step) ==
  /\ work' = discard_pending(db, work)
  /\ conn' = "closed"
  /\ UNCHANGED <<db, db_before>>
  /\ Die(step)

\* an exception that is no sqlite3.Error: only finally: conn.close() runs
OtherError(step) ==
  /\ work' = discard_pending(db, work)
  /\ conn' = "closed"
  /\ UNCHANGED <<db, db_before>>
  /\ Die(step)

InsertSubmission ==
  /\ pc = "ins_sub"
  /\ UNCHANGED <<envVars, repo_name, code_files, student_code_blob,
                 autograder_out, perfect, ts, past_fb, prior_feedback,
                 system_prompt, requests, feedback_text, md_written>>
  /\ \/ /\ Execute("submissions",
                   SubmissionRow(Len(work.submissions) + 1, repo_name,
                                 student_code_blob, ts))
        /\ submission_id' = lastrowid(work')
        /\ file_idx' = 1
        /\ Goto("ins_files")
     \/ SqliteError("ins_sub") /\ UNCHANGED <<submission_id, file_idx>>

\* one turn of "for p in code_files": read_file(p) reads the disk again
InsertCodeFile ==
  /\ pc = "ins_files"
  /\ UNCHANGED <<envVars, repo_name, code_files, student_code_blob,
                 autograder_out, perfect, ts, past_fb, prior_feedback,
                 system_prompt, requests, feedback_text, submission_id,
                 md_written>>
  /\ LET p == code_files[file_idx]
     IN IF ~(student_dir.exists /\ IsFile(student_dir.tree, p))
          THEN OtherError("ins_files") /\ UNCHANGED file_idx
          ELSE \/ /\ Execute("code_files",
                             CodeFileRow(submission_id, p,
                                         read_file(student_dir.tree[p].data)))
                  /\ file_idx' = file_idx + 1
                  /\ Goto(IF file_idx = Len(code_files) THEN "ins_auto"
                                                        ELSE "ins_files")
               \/ SqliteError("ins_files") /\ UNCHANGED file_idx

InsertAutograder ==
  /\ pc = "ins_auto"
  /\ UNCHANGED <<envVars, localVars>>
  /\ \/ /\ Execute("autograder_outputs",
                   AutograderRow(submission_id, autograder_out, ts))
        /\ Goto("ins_fb")
     \/ SqliteError("ins_auto")

InsertFeedback ==
  /\ pc = "ins_fb"
  /\ UNCHANGED <<envVars, localVars>>
  /\ \/ /\ Execute("feedback",
                   FeedbackRow(submission_id, repo_name, feedback_text, ts))
        /\ Goto("commit")
     \/ SqliteError("ins_fb")

\* the end of the try block without conn.commit() (the script commits)
CommitForgotten ==
  /\ pc = "commit"
  /\ UNCHANGED <<envVars, localVars>>
  /\ \/ /\ work' = discard_pending(db, work) /\ conn' = "closed"
        /\ UNCHANGED <<db, db_before>>
        /\ pc' = "done" /\ outcome' = "ok"
        /\ UNCHANGED <<failedAt, runsLeft, clock>>
     \/ SqliteError("commit")

\* conn.commit(), then finally: conn.close()
Commit ==
  /\ pc = "commit"
  /\ UNCHANGED <<envVars, localVars>>
  /\ \/ /\ db' = work /\ conn' = "closed" /\ UNCHANGED <<work, db_before>>
        /\ pc' = "done" /\ outcome' = "ok"
        /\ UNCHANGED <<failedAt, runsLeft, clock>>
     \/ SqliteError("commit")

----------------------------------------------------------------------------
(* The environment *)

FileDatas == {FileX, FileY}

\* a student file is rewritten on disk while the model call is under way
WriteFile(p, data) ==
  /\ pc = "model"
  /\ student_dir.exists /\ IsFile(student_dir.tree, p)
  /\ data # student_dir.tree[p].data
  /\ student_dir' = [student_dir EXCEPT !.tree[p].data = data]
  /\ UNCHANGED <<ctlVars, auto_file, prompt_dir, prompt_names, feedback_md,
                 localVars, dbVars>>

\* a student file is removed from disk while the model call is under way
RemoveFile(p) ==
  /\ pc = "model"
  /\ student_dir.exists /\ IsFile(student_dir.tree, p)
  /\ student_dir' = [student_dir EXCEPT
                       !.tree = [q \in DOMAIN student_dir.tree \ {p} |->
                                   student_dir.tree[q]]]
  /\ UNCHANGED <<ctlVars, auto_file, prompt_dir, prompt_names, feedback_md,
                 localVars, dbVars>>

ReviewComments == {Null, Str(<<"a">>)}

\* the teacher reviews feedback row i, between two runs
Review(i, comment) ==
  /\ pc = "idle"
  /\ i \in 1..Len(db.feedback) /\ ~db.feedback[i].reviewed
  /\ db' = [db EXCEPT !.feedback[i].reviewed = TRUE,
                      !.feedback[i].teacher_comments = comment,
                      !.feedback[i].reviewed_at = clock]
  /\ work' = db'
  /\ UNCHANGED <<ctlVars, envVars, localVars, conn, db_before>>

----------------------------------------------------------------------------
(* The pipeline over a few environments and MaxRuns invocations *)

Tree(files, dirs) ==
  [p \in files \cup dirs |->
     IF p \in dirs THEN [kind |-> "dir", data |-> NoData]
                   ELSE [kind |-> "file", data |-> FileX]]

Dir(tree) == [exists |-> TRUE, tree |-> tree]
NoDir     == [exists |-> FALSE, tree |-> <<>>]

TextFile(text) == [exists |-> TRUE,
                   data |-> [utf8ok |-> TRUE, utf8 |-> text, latin1 |-> text]]
NoTextFile     == [exists |-> FALSE, data |-> NoData]

PromptsOk  == [n \in TemplateNames |->
                 IF n = NameDefault THEN TemplateFile(TRUE, <<"t", " ">>) ELSE Absent]
PromptsBad == [n \in TemplateNames |->
                 IF n = NameDefault THEN TemplateFile(FALSE, <<>>) ELSE Absent]

TreeAB     == Tree({<<<<"a">>>>, <<<<"b">>>>}, {})
\* a visible file, and a file of bytes that are no UTF-8 in a hidden directory
TreeHidden ==
  [Tree({<<<<"a">>>>, <<<<".", "g">>, <<"a">>>>}, {<<<<".", "g">>>>})
     EXCEPT ![<<<<".", "g">>, <<"a">>>>].data = FileBin]

Env(dir, auto, prompts) ==
  [student_dir |-> dir, auto_file |-> auto, prompt_dir |-> prompts]

\* the environments a run of the pipeline is started in
MainEnvs ==
  { Env(Dir(TreeAB), TextFile(<<Marker>>), PromptsOk),
    Env(Dir(TreeHidden), NoTextFile, PromptsOk),
    Env(Dir(TreeAB), TextFile(<<"Points", " ", "5", "/", "7">>), PromptsBad),
    Env(NoDir, NoTextFile, PromptsOk) }

DefaultNames == [perfect |-> NamePerfect, default |-> NameDefault]

InitLocals ==
  /\ repo_name = "" /\ code_files = <<>> /\ student_code_blob = <<>>
  /\ autograder_out = <<>> /\ perfect = FALSE /\ ts = 0
  /\ past_fb = <<>> /\ prior_feedback = <<>> /\ system_prompt = <<>>
  /\ requests = 0 /\ feedback_text = "" /\ submission_id = 0
  /\ file_idx = 0 /\ md_written = FALSE

Init ==
  /\ pc = "idle" /\ outcome = "none" /\ failedAt = ""
  /\ runsLeft = MaxRuns /\ clock = 0
  /\ student_dir = NoDir /\ auto_file = NoTextFile /\ prompt_dir = PromptsOk
  /\ prompt_names = DefaultNames
  /\ feedback_md = NoFile
  /\ InitLocals
  /\ conn = "none" /\ db = EmptyDb /\ work = EmptyDb /\ db_before = EmptyDb

Args == {<<>>} \cup {<<r>> : r \in Repos}

Next ==
  \/ \E args \in Args, env \in MainEnvs : StartRun(args, env)
  \/ Exit
  \/ Collect
  \/ ReadInputs
  \/ Connect
  \/ QueryHistory
  \/ LoadPrompt
  \/ CallModel
  \/ WriteMarkdown
  \/ InsertSubmission
  \/ InsertCodeFile
  \/ InsertAutograder
  \/ InsertFeedback
  \/ Commit
  \/ \E p \in DOMAIN student_dir.tree, data \in FileDatas : WriteFile(p, data)
  \/ \E p \in DOMAIN student_dir.tree : RemoveFile(p)
  \/ \E i \in 1..Len(db.feedback), c \in ReviewComments : Review(i, c)

Spec == Init /\ [][Next]_vars

----------------------------------------------------------------------------
(* Properties of the pipeline *)

\* the rows of a table that reference submission id
RowsOf(rows, id) == {i \in 1..Len(rows) : rows[i].submission_id = id}

\* the run has committed its rows: one submission more than before the run
Persisted ==
  /\ Len(db.submissions) = Len(db_before.submissions) + 1
  /\ db.submissions[Len(db.submissions)].id = submission_id
  /\ RowsOf(db.feedback, submission_id) # {}

\* C1: while the insert sequence is under way nothing of it is committed,
\* and a run that fails anywhere in the insert sequence (a store error or
\* any other error) ends as failed with nothing pending and with the
\* committed tables exactly as they were before the run.
C1_FailedInsertsRolledBack ==
  /\ pc \in InsertSteps => db = db_before
  /\ (pc = "done" /\ failedAt \in InsertSteps) =>
       outcome = "failed" /\ work = db /\ db = db_before

\* a second code file has gone from disk when its turn to be inserted comes,
\* after the submission and the first code file were inserted, in a store
\* that holds an earlier run's rows
C1_Witness ==
  /\ pc = "done" /\ failedAt = "ins_files" /\ file_idx = 2
  /\ ~IsFile(student_dir.tree, code_files[2])
  /\ Len(db.submissions) > 0 /\ db = db_before

\* every committed submission has one autograder row, one feedback row, and
\* one code file row for each header of its blob, in the order of the blob
SubmissionsComplete ==
  \A n \in 1..Len(db.submissions) :
    LET id    == db.submissions[n].id
        files == SelectSeq(db.code_files, LAMBDA r : r.submission_id = id)
    IN /\ Cardinality(RowsOf(db.autograder_outputs, id)) = 1
       /\ Cardinality(RowsOf(db.feedback, id)) = 1
       /\ \A m \in 1..Len(db.submissions) : db.submissions[m].id = id => m = n
       /\ [i \in 1..Len(files) |-> files[i].filename]
            = HeaderPathsOf(db.submissions[n].code)

\* a step adds feedback rows to the committed store only with reviewed = false
NewFeedbackUnreviewed ==
  \A i \in (Len(db.feedback) + 1)..Len(db'.feedback) : ~db'.feedback[i].reviewed

\* C2: in every committed store state, whatever runs succeeded or failed
\* before, every submission has exactly one autograder row, exactly one
\* feedback row and one code file row per file discovered by its run, and
\* every feedback row enters the store with reviewed = false.
C2_SubmissionsComplete ==
  [](SubmissionsComplete) /\ [][NewFeedbackUnreviewed]_vars

\* a store with one committed submission, reviewed since, its two code files
\* with it, after a second run failed at the commit of its four inserts
C2_Witness ==
  /\ pc = "done" /\ failedAt = "commit"
  /\ Len(db.submissions) = 1 /\ Len(db.code_files) = 2
  /\ Len(db.feedback) = 1 /\ db.feedback[1].reviewed

\* C3: a run whose model call fails ends as failed after exactly one request
\* and before any insert: nothing is pending and the four tables are as they
\* were before the run.
C3_ModelFailureBeforeInserts ==
  (pc = "done" /\ failedAt = "model") =>
    /\ outcome = "failed" /\ requests = 1
    /\ work = db_before /\ db = db_before

\* the model call of a run fails in a store that holds an earlier run's rows
C3_Witness ==
  /\ pc = "done" /\ failedAt = "model" /\ requests = 1
  /\ Len(db.submissions) > 0

\* C4, as claimed: a run ends either with the whole pipeline completed or as
\* a failure before persistence with no new rows, and never with its markdown
\* file written while its rows are not persisted.
C4_NoPartialSuccess ==
  pc = "done" =>
    /\ \/ outcome = "ok" /\ md_written /\ Persisted
       \/ outcome = "failed" /\ failedAt \notin InsertSteps /\ db = db_before
    /\ ~(md_written /\ ~Persisted)

\* C4, amended: a run ends either with the whole pipeline completed (markdown
\* written, all rows persisted) or as a failure with no new rows written; it
\* ends with its markdown file written while its rows are not persisted
\* exactly when it failed during the insert sequence.
C4_PartialOnlyInInsertSequence ==
  pc = "done" =>
    /\ \/ outcome = "ok" /\ md_written /\ Persisted
       \/ outcome = "failed" /\ db = db_before
    /\ (md_written /\ ~Persisted) <=> failedAt \in InsertSteps

\* a run that failed in the insert sequence with its markdown file on disk
C4_Witness ==
  /\ pc = "done" /\ failedAt \in InsertSteps /\ md_written
  /\ feedback_md.complete /\ feedback_md.heading = repo_name
  /\ db = db_before

\* C5, as claimed: a run that has opened the connection has closed it when
\* it ends, on every exit path.
C5_ConnectionReleased ==
  pc = "done" => conn # "open"

\* C10, as claimed: the code of each code file row of a committed submission
\* is what the submission's blob holds for that file, so the blob is the
\* serialization of the submission's code file rows.
C10_CodeFilesMatchBlob ==
  \A n \in 1..Len(db.submissions) :
    LET files == SelectSeq(db.code_files,
                           LAMBDA r : r.submission_id = db.submissions[n].id)
    IN db.submissions[n].code
         = Flatten([i \in 1..Len(files) |->
                      BlobEntry(files[i].filename, files[i].code)])

----------------------------------------------------------------------------
(* The Score Detector over autograder texts of up to MaxItems items *)

Spaces == {<<>>, <<" ">>}

\* "Points X/Y" phrases, with and without the spaces the pattern allows, and
\* two phrases with the keyword in lower case
PointsPhrases ==
  {<<"Points">> \o s1 \o x \o s2 \o <<"/">> \o s2 \o y :
     s1 \in Spaces, s2 \in Spaces,
     x \in {<<"7">>, <<"5">>, <<"0", "7">>}, y \in {<<"7">>, <<"0", "7">>}}
  \cup {<<"points", " ", "7", "/", "7">>, <<"points", " ", "5", "/", "7">>}

ScoreItems == PointsPhrases \cup {<<Marker>>, <<MarkerLower>>, <<"x">>, <<"7">>}

ScoreTexts == {Flatten(items) : items \in SeqsUpTo(ScoreItems, MaxItems)}

\* the run has collected the files and is about to read the autograder report
InitScore ==
  /\ pc = "read" /\ outcome = "running" /\ failedAt = ""
  /\ runsLeft = 0 /\ clock = 1
  /\ student_dir = Dir(TreeAB)
  /\ \E text \in ScoreTexts : auto_file = TextFile(text)
  /\ prompt_dir = PromptsOk /\ prompt_names = DefaultNames
  /\ feedback_md = NoFile
  /\ repo_name = "r1"
  /\ code_files = collect(TreeAB) /\ student_code_blob = Blob(collect(TreeAB), TreeAB)
  /\ autograder_out = <<>> /\ perfect = FALSE /\ ts = 0
  /\ past_fb = <<>> /\ prior_feedback = <<>> /\ system_prompt = <<>>
  /\ requests = 0 /\ feedback_text = "" /\ submission_id = 0
  /\ file_idx = 0 /\ md_written = FALSE
  /\ conn = "none" /\ db = EmptyDb /\ work = EmptyDb /\ db_before = EmptyDb

NextScore == ReadInputs

SpecScore == InitScore /\ [][NextScore]_vars

AllSpaces(text, from, to) == \A k \in from..to : IsSpace(text[k])
AllDigits(text, from, to) == \A k \in from..to : IsDigit(text[k])

\* The occurrences of "Points X / Y" that begin at index i, as [x, y]:
\* "Points", spaces, the digits X = text[a..b-1], "/" with or without spaces
\* around it, the digits Y = text[d..e-1] up to the first token that is no digit
OccurrencesAt(text, i) ==
  IF text[i] \notin Keywords THEN {}
  ELSE UNION {UNION {UNION {
         {[x |-> SubSeq(text, a, b - 1), y |-> SubSeq(text, d, e - 1)] :
            e \in {e \in (d + 1)..(Len(text) + 1) :
                     /\ AllDigits(text, d, e - 1)
                     /\ (e > Len(text) \/ ~IsDigit(text[e]))}} :
         d \in {d \in (b + 1)..Len(text) :
                  \E c \in b..(d - 1) : /\ AllSpaces(text, b, c - 1)
                                        /\ text[c] = "/"
                                        /\ AllSpaces(text, c + 1, d - 1)}} :
         b \in {b \in (a + 1)..Len(text) : AllDigits(text, a, b - 1)}} :
         a \in {a \in (i + 2)..Len(text) : AllSpaces(text, i + 1, a - 1)}}

OccursAt(text, i) == OccurrencesAt(text, i) # {}

HasMarker(text) == \E i \in 1..Len(text) : text[i] = Marker

RECURSIVE NumVal(_)
NumVal(ds) ==
  IF ds = <<>> THEN 0
  ELSE 10 * NumVal(SubSeq(ds, 1, Len(ds) - 1))
         + (CASE ds[Len(ds)] = "0" -> 0 [] ds[Len(ds)] = "5" -> 5 [] ds[Len(ds)] = "7" -> 7)

----------------------------------------------------------------------------
(* The File Collector over the trees of up to MaxEntries entries *)

Paths == UNION {[1..k -> Names] : k \in 1..MaxDepth}

\* a file or a directory is put under the student-code root before the run
\* collects the files
AddEntry(p, kind) ==
  /\ pc = "collect"
  /\ p \notin DOMAIN student_dir.tree
  /\ Cardinality(DOMAIN student_dir.tree) < MaxEntries
  /\ Len(p) = 1 \/ IsDir(student_dir.tree, Parent(p))
  /\ student_dir' =
       [student_dir EXCEPT
          !.tree = [q \in DOMAIN student_dir.tree \cup {p} |->
                      IF q = p
                        THEN [kind |-> kind,
                              data |-> IF kind = "file" THEN FileX ELSE NoData]
                        ELSE student_dir.tree[q]]]
  /\ UNCHANGED <<ctlVars, auto_file, prompt_dir, prompt_names, feedback_md,
                 localVars, dbVars>>

\* the script has been started and is about to collect the files
InitCollect ==
  /\ pc = "collect" /\ outcome = "running" /\ failedAt = ""
  /\ runsLeft = 0 /\ clock = 1
  /\ student_dir = Dir(<<>>)
  /\ auto_file = NoTextFile
  /\ prompt_dir = PromptsOk /\ prompt_names = DefaultNames
  /\ feedback_md = NoFile
  /\ repo_name = "r1"
  /\ code_files = <<>> /\ student_code_blob = <<>>
  /\ autograder_out = <<>> /\ perfect = FALSE /\ ts = 0
  /\ past_fb = <<>> /\ prior_feedback = <<>> /\ system_prompt = <<>>
  /\ requests = 0 /\ feedback_text = "" /\ submission_id = 0
  /\ file_idx = 0 /\ md_written = FALSE
  /\ conn = "none" /\ db = EmptyDb /\ work = EmptyDb /\ db_before = EmptyDb

NextCollect ==
  \/ \E p \in Paths, kind \in {"file", "dir"} : AddEntry(p, kind)
  \/ Collect

SpecCollect == InitCollect /\ [][NextCollect]_vars

\* the regular files of the tree that are not hidden and lie beneath no
\* hidden directory
VisibleFiles(tree) ==
  {p \in DOMAIN tree : IsFile(tree, p) /\ \A i \in 1..Len(p) : ~StartsWithDot(p[i])}

\* C9, as claimed: once the files are collected, the header lines of the blob
\* are the relative paths of the regular files that are neither hidden nor
\* beneath a hidden directory, each exactly once, in sorted path order.
C9_HeadersAreVisibleFiles ==
  pc = "read" =>
    LET hp == HeaderPathsOf(student_code_blob)
    IN /\ Range(hp) = VisibleFiles(student_dir.tree)
       /\ \A i \in 1..Len(hp), j \in 1..Len(hp) : i < j => PathLess(hp[i], hp[j])

----------------------------------------------------------------------------
(* The History Retriever over stores of up to MaxRows feedback rows *)

HistoryComments == <<Null, Str(<<>>), Str(<<"a">>), Str(<<"b">>)>>

\* what a feedback row of the store can be: a reviewed row of repository r1
\* with one of the comments and one of three review times (kinds 1 to 12), a
\* reviewed row of another repository, and a row of r1 not reviewed yet
HistoryRowKind(n) ==
  IF n <= 3 * Len(HistoryComments)
    THEN [repo |-> "r1", reviewed |-> TRUE,
          at |-> ((n - 1) \div Len(HistoryComments)) + 1,
          comment |-> HistoryComments[((n - 1) % Len(HistoryComments)) + 1]]
  ELSE IF n = 3 * Len(HistoryComments) + 1
    THEN [repo |-> "r2", reviewed |-> TRUE, at |-> 3, comment |-> Str(<<"z">>)]
  ELSE [repo |-> "r1", reviewed |-> FALSE, at |-> 0, comment |-> Null]

HistoryKindCount == 3 * Len(HistoryComments) + 2

\* the stores of up to MaxRows rows, one for each choice of row kinds: the
\* rows in the order of their kinds (the query result does not depend on the
\* order of the rows in the table)
HistoryTables ==
  {[i \in 1..Len(ns) |-> HistoryRowKind(ns[i])] :
     ns \in {ns \in SeqsUpTo(1..HistoryKindCount, MaxRows) :
               \A i \in 1..(Len(ns) - 1) : ns[i] <= ns[i + 1]}}

BlobAB == Blob(collect(TreeAB), TreeAB)

\* the store after one committed run per row, each reviewed as its kind says
StoreOf(kinds) ==
  [submissions |->
     [i \in 1..Len(kinds) |->
        SubmissionRow(i, kinds[i].repo, BlobAB, i)],
   code_files |->
     [j \in 1..(2 * Len(kinds)) |->
        CodeFileRow((j + 1) \div 2, collect(TreeAB)[2 - (j % 2)], <<"x">>)],
   autograder_outputs |->
     [i \in 1..Len(kinds) |-> AutograderRow(i, <<>>, i)],
   feedback |->
     [i \in 1..Len(kinds) |->
        [FeedbackRow(i, kinds[i].repo, "fb", i) EXCEPT
           !.reviewed = kinds[i].reviewed,
           !.teacher_comments = kinds[i].comment,
           !.reviewed_at = kinds[i].at]]]

\* the run has connected and is about to query the history of r1
InitHistory ==
  /\ pc = "history" /\ outcome = "running" /\ failedAt = ""
  /\ runsLeft = 0
  /\ \E kinds \in HistoryTables :
       /\ db = StoreOf(kinds) /\ work = StoreOf(kinds) /\ db_before = StoreOf(kinds)
       /\ clock = Len(kinds) + 1 /\ ts = Len(kinds) + 1
  /\ conn = "open"
  /\ student_dir = Dir(TreeAB)
  /\ auto_file = NoTextFile
  /\ prompt_dir = PromptsOk /\ prompt_names = DefaultNames
  /\ feedback_md = NoFile
  /\ repo_name = "r1"
  /\ code_files = collect(TreeAB) /\ student_code_blob = Blob(collect(TreeAB), TreeAB)
  /\ autograder_out = <<>> /\ perfect = FALSE
  /\ past_fb = <<>> /\ prior_feedback = <<>> /\ system_prompt = <<>>
  /\ requests = 0 /\ feedback_text = "" /\ submission_id = 0
  /\ file_idx = 0 /\ md_written = FALSE

NextHistory == QueryHistory

SpecHistory == InitHistory /\ [][NextHistory]_vars

\* the reviewed feedback rows of the repository the run is about
ReviewedRows == {i \in 1..Len(work.feedback) :
                   /\ work.feedback[i].repo_name = repo_name
                   /\ work.feedback[i].reviewed}

\* sel lists min(3, k) different rows among the k reviewed rows of the
\* repository, newest first, and no row left out is newer than a listed one
MostRecent(sel) ==
  /\ Len(sel) = Min(3, Cardinality(ReviewedRows))
  /\ \A a \in 1..Len(sel), b \in 1..Len(sel) :
       a < b => /\ sel[a] # sel[b]
                /\ work.feedback[sel[a]].reviewed_at >= work.feedback[sel[b]].reviewed_at
  /\ \A m \in ReviewedRows \ Range(sel), a \in 1..Len(sel) :
       work.feedback[m].reviewed_at <= work.feedback[sel[a]].reviewed_at

CommentsOf(sel) == [a \in 1..Len(sel) |-> work.feedback[sel[a]].teacher_comments]

\* the comments that are neither NULL nor empty, in order, a blank line
\* before each but the first
BlankLineJoined(comments) ==
  LET kept == SelectSeq(comments, LAMBDA c : ~c.null /\ Len(c.s) > 0)
  IN Flatten([a \in 1..Len(kept) |->
                IF a = 1 THEN kept[a].s ELSE <<"\n\n">> \o kept[a].s])

\* C6, as claimed: the result is built from the min(3, k) most recent of the
\* k reviewed rows of the repository, newest first, and it is the "no history"
\* sentinel exactly when k = 0.
C6_SentinelIffNoReviewedRow ==
  pc = "prompt" =>
    /\ \E sel \in SeqsUpTo(ReviewedRows, 3) :
         MostRecent(sel) /\ past_fb = CommentsOf(sel)
    /\ (prior_feedback = Sentinel <=> Cardinality(ReviewedRows) = 0)

\* C6, amended: the result is built from the min(3, k) most recent of the k
\* reviewed rows of the repository, newest first (rows reviewed at the same
\* time in any order); it is the blank-line join of those of their teacher
\* comments that are neither NULL nor empty, and the "no history" sentinel
\* when none of them has such a comment (k = 0 included).
C6_RecentNonEmptyComments ==
  pc = "prompt" =>
    \E sel \in SeqsUpTo(ReviewedRows, 3) :
      /\ MostRecent(sel)
      /\ past_fb = CommentsOf(sel)
      /\ prior_feedback = IF BlankLineJoined(CommentsOf(sel)) = <<>>
                            THEN Sentinel
                            ELSE BlankLineJoined(CommentsOf(sel))

\* more than three reviewed rows, of which three are returned, one of them
\* without a comment and one with
C6_Witness ==
  /\ pc = "prompt" /\ Cardinality(ReviewedRows) > 3 /\ Len(past_fb) = 3
  /\ \E a \in 1..3 : ~Truthy(past_fb[a])
  /\ \E a \in 1..3 : Truthy(past_fb[a])
  /\ prior_feedback # Sentinel

----------------------------------------------------------------------------
(* The choice of the system instruction over the prompt configurations *)

NameChoices    == TemplateNames \cup {""}          \* "": the variable set empty
TemplateStates ==
  {Absent, TemplateFile(FALSE, <<>>)}
    \cup {TemplateFile(TRUE, c) : c \in SeqsUpTo({" ", "t"}, MaxTplLen)}

\* the run has queried the (empty) history and is about to load the prompt
InitPrompt ==
  /\ pc = "prompt" /\ outcome = "running" /\ failedAt = ""
  /\ runsLeft = 0 /\ clock = 1 /\ ts = 1
  /\ student_dir = Dir(TreeAB)
  /\ perfect \in BOOLEAN
  /\ auto_file = IF perfect THEN TextFile(<<Marker>>) ELSE NoTextFile
  /\ autograder_out = IF perfect THEN <<Marker>> ELSE <<>>
  /\ prompt_dir \in [TemplateNames -> TemplateStates]
  /\ prompt_names \in [perfect : NameChoices, default : NameChoices]
  /\ feedback_md = NoFile
  /\ repo_name = "r1"
  /\ code_files = collect(TreeAB) /\ student_code_blob = BlobAB
  /\ past_fb = <<>> /\ prior_feedback = Sentinel /\ system_prompt = <<>>
  /\ requests = 0 /\ feedback_text = "" /\ submission_id = 0
  /\ file_idx = 0 /\ md_written = FALSE
  /\ conn = "open" /\ db = EmptyDb /\ work = EmptyDb /\ db_before = EmptyDb

NextPrompt == LoadPrompt

SpecPrompt == InitPrompt /\ [][NextPrompt]_vars

\* the template filename configured for the verdict
VerdictTemplate == IF perfect THEN prompt_names.perfect ELSE prompt_names.default

\* t is c without its leading and trailing whitespace
IsTrimOf(t, c) ==
  \E i \in 1..(Len(c) + 1), j \in 0..Len(c) :
    /\ t = SubSeq(c, i, j)
    /\ AllSpaces(c, 1, i - 1) /\ AllSpaces(c, j + 1, Len(c))
    /\ t = <<>> \/ (~IsSpace(t[1]) /\ ~IsSpace(t[Len(t)]))

\* C7, as claimed: whatever the verdict, the template filenames and the
\* prompt directory, the run does not fail at the prompt, and the instruction
\* is the trimmed contents of the verdict's template file if that file exists
\* and the verdict's built-in fallback string if it does not.
C7_VerdictTemplateOrFallback ==
  pc \in {"model", "done"} =>
    /\ pc = "model"
    /\ IF VerdictTemplate \in TemplateNames
            /\ prompt_dir[VerdictTemplate].kind = "file"
         THEN IsTrimOf(system_prompt, prompt_dir[VerdictTemplate].content)
         ELSE system_prompt = (IF perfect THEN FallbackPerfect ELSE FallbackDefault)

====
